---- MODULE Spec2Model ----
(***************************************************************************)
(* Instagram Analyzer: the client view-state controller (src/app/page.tsx) *)
(* and the metrics resolution endpoint (the /api/analyze route).           *)
(*                                                                         *)
(* Text is modelled as JavaScript holds it: a string is the sequence of    *)
(* its UTF-16 code units (numbers).  The fixed category and location       *)
(* labels are TLA+ strings; StringCodes gives their code units.            *)
(***************************************************************************)
EXTENDS Integers, Sequences, FiniteSets, Bags, TLC

VARIABLES
    handles,     \* useState<string[]>(['']) : the editable handle list
    results,     \* useState<InstagramData[]>([]) : the stored result rows
    loading,     \* useState(false)
    sortConfig,  \* useState<{key, direction} | null>(null)
    runs,        \* the analyzeAccounts() invocations that have not returned yet
    finished,    \* the invocation that stored `results`: its handles and what each request met
    issued,      \* the number of requests sent to /api/analyze so far
    emptied,     \* the last operation on the handle list was a removal that left no entry
    exported,    \* the rows handed to Papa.unparse by the last export
    request,     \* endpoint: the JSON body's handle of the request being served
    lastCall,    \* endpoint: the latest response to `request`
    prevCall     \* endpoint: the response before it, to the same `request`

vars == <<handles, results, loading, sortConfig, runs, finished, issued, emptied, exported,
          request, lastCall, prevCall>>

ctlVars == <<handles, results, loading, sortConfig, runs, finished, issued, emptied, exported>>
epVars  == <<request, lastCall, prevCall>>

----------------------------------------------------------------------------
(* Bounds of the model *)

\* longest request handle drawn over Alphabet for the endpoint
MaxLen == 3
\* handle slots the controller's list may grow to
MaxSlots == 2
\* analyzeAccounts() invocations that may be awaiting a response at once
MaxRuns == 2
\* requests the controller may send in one behaviour
MaxRequests == 2
\* rows of the result sets the sort specification starts from
MaxRows == 3

----------------------------------------------------------------------------
(* JavaScript strings as sequences of code units *)

\* '@', ' ', 'a', 'Z', '!', '.'
Alphabet == {64, 32, 97, 90, 33, 46}

RECURSIVE StringsUpTo(_)
StringsUpTo(n) ==
    IF n = 0 THEN {<<>>}
    ELSE LET shorter == StringsUpTo(n - 1)
         IN  shorter \cup {Append(s, c) : s \in {t \in shorter : Len(t) = n - 1}, c \in Alphabet}

\* "test", "bad handle!", "Zeta", "alpha", "N/A"
Test      == <<116, 101, 115, 116>>
BadHandle == <<98, 97, 100, 32, 104, 97, 110, 100, 108, 101, 33>>
Zeta      == <<90, 101, 116, 97>>
Alpha     == <<97, 108, 112, 104, 97>>
NA        == <<78, 47, 65>>

\* String.prototype.trim's white space (the code units below 256)
IsWhiteSpace(c) == c \in {9, 10, 11, 12, 13, 32, 160}

RECURSIVE TrimStart(_)
TrimStart(s) ==
    IF s # <<>> /\ IsWhiteSpace(Head(s)) THEN TrimStart(Tail(s)) ELSE s

RECURSIVE TrimEnd(_)
TrimEnd(s) ==
    IF s # <<>> /\ IsWhiteSpace(s[Len(s)]) THEN TrimEnd(SubSeq(s, 1, Len(s) - 1)) ELSE s

Trim(s) == TrimEnd(TrimStart(s))

\* s.replace('@', ''): a string pattern replaces its first occurrence only
ReplaceFirstAt(s) ==
    IF \E i \in 1..Len(s) : s[i] = 64
    THEN LET i == CHOOSE k \in 1..Len(s) : s[k] = 64 /\ \A j \in 1..(k - 1) : s[j] # 64
         IN  SubSeq(s, 1, i - 1) \o SubSeq(s, i + 1, Len(s))
    ELSE s

\* toUpperCase / toLowerCase of one code unit (ASCII and Latin-1 letters)
ToUpperCode(c) ==
    IF c \in 97..122 \/ (c \in 224..254 /\ c # 247) THEN c - 32 ELSE c

ToLowerCode(c) ==
    IF c \in 65..90 \/ (c \in 192..222 /\ c # 215) THEN c + 32 ELSE c

ToUpperCase(s) == [i \in 1..Len(s) |-> ToUpperCode(s[i])]
ToLowerCase(s) == [i \in 1..Len(s) |-> ToLowerCode(s[i])]

\* a < b on strings: by code units, a proper prefix first
RECURSIVE StrLess(_, _)
StrLess(a, b) ==
    IF b = <<>> THEN FALSE
    ELSE IF a = <<>> THEN TRUE
    ELSE IF Head(a) # Head(b) THEN Head(a) < Head(b)
    ELSE StrLess(Tail(a), Tail(b))

\* the code units of the fixed labels of the program
StringCodes ==
       "Influencer" :> <<73,110,102,108,117,101,110,99,101,114>> @@
       "Brand" :> <<66,114,97,110,100>> @@
       "Artist" :> <<65,114,116,105,115,116>> @@
       "Content Creator" :> <<67,111,110,116,101,110,116,32,67,114,101,97,116,111,114>> @@
       "Business" :> <<66,117,115,105,110,101,115,115>> @@
       "Personal" :> <<80,101,114,115,111,110,97,108>> @@
       "Celebrity" :> <<67,101,108,101,98,114,105,116,121>> @@
       "Photographer" :> <<80,104,111,116,111,103,114,97,112,104,101,114>> @@
       "Fashion" :> <<70,97,115,104,105,111,110>> @@
       "Food & Beverage" :> <<70,111,111,100,32,38,32,66,101,118,101,114,97,103,101>> @@
       "Travel" :> <<84,114,97,118,101,108>> @@
       "Fitness" :> <<70,105,116,110,101,115,115>> @@
       "Technology" :> <<84,101,99,104,110,111,108,111,103,121>> @@
       "Education" :> <<69,100,117,99,97,116,105,111,110>> @@
       "Entertainment" :> <<69,110,116,101,114,116,97,105,110,109,101,110,116>> @@
       "Los Angeles, CA" :> <<76,111,115,32,65,110,103,101,108,101,115,44,32,67,65>> @@
       "New York, NY" :> <<78,101,119,32,89,111,114,107,44,32,78,89>> @@
       "Miami, FL" :> <<77,105,97,109,105,44,32,70,76>> @@
       "London, UK" :> <<76,111,110,100,111,110,44,32,85,75>> @@
       "Paris, France" :> <<80,97,114,105,115,44,32,70,114,97,110,99,101>> @@
       "Tokyo, Japan" :> <<84,111,107,121,111,44,32,74,97,112,97,110>> @@
       "Dubai, UAE" :> <<68,117,98,97,105,44,32,85,65,69>> @@
       "Sydney, Australia" :> <<83,121,100,110,101,121,44,32,65,117,115,116,114,97,108,105,97>> @@
       "Toronto, Canada" :> <<84,111,114,111,110,116,111,44,32,67,97,110,97,100,97>> @@
       "Berlin, Germany" :> <<66,101,114,108,105,110,44,32,71,101,114,109,97,110,121>> @@
       "Singapore" :> <<83,105,110,103,97,112,111,114,101>> @@
       \* the source holds the label as the four code units S, U+00C3, U+00A3, o
       "Sao Paulo, Brazil" :> <<83,195,163,111,32,80,97,117,108,111,44,32,66,114,97,122,105,108>> @@
       "Mumbai, India" :> <<77,117,109,98,97,105,44,32,73,110,100,105,97>> @@
       "Seoul, South Korea" :> <<83,101,111,117,108,44,32,83,111,117,116,104,32,75,111,114,101,97>> @@
       "Mexico City, Mexico" :> <<77,101,120,105,99,111,32,67,105,116,121,44,32,77,101,120,105,99,111>> @@
       "Not specified" :> <<78,111,116,32,115,112,101,99,105,102,105,101,100>> @@
       "N/A" :> <<78,47,65>>

----------------------------------------------------------------------------
(* The metrics resolution endpoint *)

categories ==
    << "Influencer", "Brand", "Artist", "Content Creator", "Business", "Personal",
       "Celebrity", "Photographer", "Fashion", "Food & Beverage", "Travel", "Fitness",
       "Technology", "Education", "Entertainment" >>

locations ==
    << "Los Angeles, CA", "New York, NY", "Miami, FL", "London, UK", "Paris, France",
       "Tokyo, Japan", "Dubai, UAE", "Sydney, Australia", "Toronto, Canada",
       "Berlin, Germany", "Singapore", "Sao Paulo, Brazil", "Mumbai, India",
       "Seoul, South Korea", "Mexico City, Mexico", "Not specified" >>

\* handle.split('').reduce((acc, char) => acc + char.charCodeAt(0), 0)
RECURSIVE hash(_)
hash(handle) ==
    IF handle = <<>> THEN 0 ELSE Head(handle) + hash(Tail(handle))

\* Math.floor(1000 + (hash * 157) % 500000)
followersOf(h) == 1000 + ((h * 157) % 500000)

\* Math.floor(followers * (0.3 + (hash % 10) / 20)); the double arithmetic agrees
\* with floor(followers * (6 + hash % 10) / 20) for every hash below 200000
averageViewsOf(h) == (followersOf(h) * (6 + (h % 10))) \div 20

\* parseFloat((1.5 + (hash % 50) / 10).toFixed(2)), held in hundredths of a percent
engagementRateOf(h) == 150 + ((h % 50) * 10)

\* categories[hash % categories.length]; JavaScript indexes from 0
categoryOf(h) == categories[(h % Len(categories)) + 1]

\* locations[hash % locations.length]
locationOf(h) == locations[(h % Len(locations)) + 1]

IsSeparator(c) == c \in {46, 95}

\* handle.charAt(0).toUpperCase() + handle.slice(1)
Capitalize(s) ==
    [i \in 1..Len(s) |-> IF i = 1 THEN ToUpperCode(s[i]) ELSE s[i]]

\* handle.split(/[._]/).map(s => s.charAt(0).toUpperCase() + s.slice(1)).join(' ')
SplitCapitalizeJoin(s) ==
    [i \in 1..Len(s) |->
        IF IsSeparator(s[i]) THEN 32
        ELSE IF i = 1 \/ IsSeparator(s[i - 1]) THEN ToUpperCode(s[i])
        ELSE s[i]]

\* `${charAt(0).toUpperCase() + slice(1, 4)} ${charAt(4).toUpperCase() + slice(5)}`
FirstLast(s) ==
    Capitalize(SubSeq(s, 1, IF Len(s) < 4 THEN Len(s) ELSE 4))
        \o <<32>> \o Capitalize(SubSeq(s, 5, Len(s)))

nameVariants(handle) ==
    << Capitalize(handle), ToUpperCase(handle), SplitCapitalizeJoin(handle),
       FirstLast(handle) >>

\* nameVariants[hash % nameVariants.length]
nameOf(handle) == nameVariants(handle)[(hash(handle) % 4) + 1]

\* what the outbound page fetch and the parse of its metadata can come to
\* "Jo" is the name a profile page may carry
PageNames == { <<74, 111>> }

EnrichmentFailures == {"fetchFailed", "timeout", "noMetadata", "unparsable", "noName"}

Enrichments ==
    [kind : EnrichmentFailures, name : {<<>>}] \cup [kind : {"named"}, name : PageNames]

\* a faulty variant: the handle's first character is left out of the hash
analyzeDroppingFirst(handle, enrich) ==
    LET h == hash(Tail(handle))
    IN  [ handle |-> handle,
          name |-> IF enrich.kind = "named" THEN enrich.name ELSE nameOf(handle),
          followers |-> followersOf(h),
          averageViews |-> averageViewsOf(h),
          category |-> categoryOf(h),
          engagementRate |-> engagementRateOf(h),
          location |-> locationOf(h) ]

\* a faulty variant: the metrics are taken from the fetched page when it names the account
analyzeFromPage(handle, enrich) ==
    LET h == IF enrich.kind = "named" THEN hash(enrich.name) ELSE hash(handle)
    IN  [ handle |-> handle,
          name |-> IF enrich.kind = "named" THEN enrich.name ELSE nameOf(handle),
          followers |-> followersOf(h),
          averageViews |-> averageViewsOf(h),
          category |-> categoryOf(h),
          engagementRate |-> engagementRateOf(h),
          location |-> locationOf(h) ]

\* analyzeInstagramAccount: every failure of the fetch and of the parse is caught,
\* and only a parsed truthy name replaces the generated one
analyzeInstagramAccount(handle, enrich) ==
    LET h == hash(handle)
    IN  [ handle |-> handle,
          name |-> IF enrich.kind = "named" THEN enrich.name ELSE nameOf(handle),
          followers |-> followersOf(h),
          averageViews |-> averageViewsOf(h),
          category |-> categoryOf(h),
          engagementRate |-> engagementRateOf(h),
          location |-> locationOf(h) ]

\* /^[a-zA-Z0-9._]+$/.test(cleanHandle), for a non-empty cleanHandle
IsHandleChar(c) == c \in (48..57) \cup (65..90) \cup (97..122) \cup {46, 95}

MatchesHandleFormat(s) == s # <<>> /\ \A i \in 1..Len(s) : IsHandleChar(s[i])

\* handle.replace('@', '').trim()
cleanHandleOf(handle) == Trim(ReplaceFirstAt(handle))

\* a JSON value of the request body's handle member
StringValue(s) == [type |-> "string", text |-> s]
MissingValue   == [type |-> "undefined", text |-> <<>>]
NumberValue    == [type |-> "number", text |-> <<>>]
\* a body that is not a JSON object
MalformedBody  == [type |-> "malformed", text |-> <<>>]

\* !handle || typeof handle !== 'string'
IsRejectedValue(v) == v.type # "string" \/ v.text = <<>>

ErrorResponse(status, message) == [status |-> status, body |-> [error |-> message]]

\* POST, given the handle member of the request body and what the enrichment meets;
\* a body that request.json() or the destructuring cannot take ends in the catch
POST(handle, enrich) ==
    IF handle.type = "malformed"
    THEN ErrorResponse(500, "Failed to analyze account. Please try again.")
    ELSE IF IsRejectedValue(handle)
    THEN ErrorResponse(400, "Invalid handle provided")
    ELSE LET cleanHandle == cleanHandleOf(handle.text)
         IN  IF Len(cleanHandle) = 0
             THEN ErrorResponse(400, "Handle cannot be empty")
             ELSE IF ~MatchesHandleFormat(cleanHandle)
             THEN ErrorResponse(400, "Invalid handle format")
             ELSE [status |-> 200, body |-> analyzeInstagramAccount(cleanHandle, enrich)]

\* no request served yet
NoEnrichment == [kind |-> "none", name |-> <<>>]

NoCall == [enrich |-> NoEnrichment, res |-> ErrorResponse(0, "")]

----------------------------------------------------------------------------
(* The controller: rows, requests and the state after construction *)

\* a member an object does not have
Undefined == "<undefined>"

\* the rows pushed on a non-OK response and in the catch block
ErrorRow(handle, message) ==
    [ handle |-> handle, name |-> NA, followers |-> 0, averageViews |-> 0,
      category |-> "N/A", engagementRate |-> 0, location |-> "N/A",
      status |-> "error", error |-> message ]

\* { ...data, status: 'success' }
SuccessRow(data) ==
    [ handle |-> data.handle, name |-> data.name, followers |-> data.followers,
      averageViews |-> data.averageViews, category |-> data.category,
      engagementRate |-> data.engagementRate, location |-> data.location,
      status |-> "success", error |-> Undefined ]

\* what the user may type or paste into an input: nothing, "@ab", "a!"
TypedValues == { <<>>, <<64, 97, 98>>, <<97, 33>> }

\* the handles updateHandle can store
StoredHandles == {Trim(ReplaceFirstAt(value)) : value \in TypedValues}

\* the route's answers to a request with body { handle }, one per enrichment outcome
routeAnswers ==
    [handle \in StoredHandles |-> {POST(StringValue(handle), e) : e \in Enrichments}]

\* a rejected fetch, or a body that is not JSON: the catch block runs
Rejected == [kind |-> "rejected", res |-> ErrorResponse(0, Undefined)]

\* what a request to /api/analyze with body { handle } can meet: the route's answer,
\* a non-OK answer that is JSON without an error member, or a rejection
Met(handle) ==
    {[kind |-> "response", res |-> res] : res \in routeAnswers[handle]}
        \cup {[kind |-> "response", res |-> ErrorResponse(502, Undefined)], Rejected}

\* response.ok
IsOk(res) == res.status \in 200..299

\* the body of one iteration of the for loop, from the response on
rowFor(handle, met) ==
    IF met.kind = "rejected" THEN ErrorRow(handle, "Network error")
    ELSE IF IsOk(met.res) THEN SuccessRow(met.res.body)
    ELSE ErrorRow(handle,
                  IF met.res.body.error \in {Undefined, ""}
                  THEN "Failed to fetch data" ELSE met.res.body.error)

\* a faulty variant: a failed request leaves no row
pushUnlessFailed(newResults, handle, met) ==
    IF met.kind = "response" /\ IsOk(met.res)
    THEN Append(newResults, rowFor(handle, met)) ELSE newResults

\* newResults.push(...)
pushResult(newResults, handle, met) == Append(newResults, rowFor(handle, met))

IsBlank(h) == Trim(h) = <<>>

\* handles.filter(h => h.trim() !== '')
validHandlesOf(hs) == SelectSeq(hs, LAMBDA h : ~IsBlank(h))

\* a faulty variant: every request is issued at once
startAllAtOnce(validHandles) ==
    [ valid |-> validHandles, pending |-> 1..Len(validHandles),
      newResults |-> <<>>, met |-> <<>> ]

\* an invocation that has reached its first await: request 1 is in flight
\* (met: what its requests have met so far)
startRun(validHandles) ==
    [ valid |-> validHandles, pending |-> {1}, newResults |-> <<>>, met |-> <<>> ]

NoFinished == [stored |-> FALSE, valid |-> <<>>, met |-> <<>>]

NoExport == [done |-> FALSE, type |-> "", rows |-> <<>>]

NoSort == [set |-> FALSE, key |-> "", direction |-> ""]

InitController ==
    /\ handles = << <<>> >>
    /\ results = <<>>
    /\ loading = FALSE
    /\ sortConfig = NoSort
    /\ runs = EmptyBag
    /\ finished = NoFinished
    /\ issued = 0
    /\ emptied = FALSE
    /\ exported = NoExport

sortVars == <<sortConfig, exported>>

----------------------------------------------------------------------------
(* The controller: editing the handle list *)

addHandleInput ==
    /\ Len(handles) < MaxSlots
    /\ handles' = Append(handles, <<>>)
    /\ emptied' = FALSE
    /\ UNCHANGED <<results, loading, runs, finished, issued, sortVars, epVars>>

\* handles.filter((_, i) => i !== index)
withoutIndex(hs, index) ==
    [i \in 1..(Len(hs) - 1) |-> IF i < index THEN hs[i] ELSE hs[i + 1]]

\* a faulty variant: the list is stored as filtered
removedOnly(hs, index) == withoutIndex(hs, index)

\* newHandles.length === 0 ? [''] : newHandles
afterRemove(hs, index) ==
    IF Len(withoutIndex(hs, index)) = 0 THEN << <<>> >> ELSE withoutIndex(hs, index)

\* the page renders the remove button only while the list has more than one entry;
\* the operation itself accepts any index of the list
removeHandleInput(index) ==
    /\ index \in 1..Len(handles)
    /\ handles' = afterRemove(handles, index)
    /\ emptied' = (Len(withoutIndex(handles, index)) = 0)
    /\ UNCHANGED <<results, loading, runs, finished, issued, sortVars, epVars>>

updateHandle(index, value) ==
    /\ index \in 1..Len(handles)
    /\ handles' = [handles EXCEPT ![index] = Trim(ReplaceFirstAt(value))]
    /\ emptied' = FALSE
    /\ UNCHANGED <<results, loading, runs, finished, issued, sortVars, epVars>>

----------------------------------------------------------------------------
(* The controller: analyzeAccounts *)

\* analyzeAccounts up to its first await
analyzeAccounts ==
    /\ validHandlesOf(handles) # <<>>
    /\ BagCardinality(runs) < MaxRuns
    /\ issued < MaxRequests
    /\ issued' = issued + 1
    /\ loading' = TRUE
    /\ runs' = runs (+) SetToBag({startRun(validHandlesOf(handles))})
    /\ UNCHANGED <<handles, results, finished, emptied, sortVars, epVars>>

\* the Analyze button: disabled={loading || handles.every(h => h.trim() === '')}
ClickAnalyze ==
    /\ ~loading
    /\ analyzeAccounts

\* onKeyPress in a handle input: if (e.key === 'Enter') analyzeAccounts()
PressEnter ==
    /\ \E index \in 1..Len(handles) : TRUE
    /\ analyzeAccounts

\* what the claims keep of an answer: its kind, its status and the server's message
seen(met) ==
    [ kind |-> met.kind, status |-> met.res.status,
      error |-> IF IsOk(met.res) THEN Undefined ELSE met.res.body.error ]

\* the invocation after the answer to request i: the row is pushed and, when a handle
\* is left, the loop issues the next request
afterResponse(run, i, met) ==
    [ run EXCEPT
        !.newResults = pushResult(run.newResults, run.valid[i], met),
        !.met = Append(run.met, seen(met)),
        !.pending = (run.pending \ {i}) \cup (IF i < Len(run.valid) THEN {i + 1} ELSE {}) ]

\* an awaited response arrives and a handle is left
ResponseArrives ==
    \E run \in BagToSet(runs) : \E i \in run.pending : \E met \in Met(run.valid[i]) :
        /\ i < Len(run.valid)
        /\ issued < MaxRequests
        /\ issued' = issued + 1
        /\ runs' = (runs (-) SetToBag({run})) (+) SetToBag({afterResponse(run, i, met)})
        /\ UNCHANGED <<handles, results, loading, finished, emptied, sortVars, epVars>>

\* the answer to the last request arrives: setResults(newResults); setLoading(false)
LastResponseArrives ==
    \E run \in BagToSet(runs) : \E i \in run.pending : \E met \in Met(run.valid[i]) :
        /\ i = Len(run.valid)
        /\ results' = afterResponse(run, i, met).newResults
        /\ loading' = FALSE
        /\ finished' = [stored |-> TRUE, valid |-> run.valid,
                        met |-> afterResponse(run, i, met).met]
        /\ runs' = runs (-) SetToBag({run})
        /\ UNCHANGED <<handles, issued, emptied, sortVars, epVars>>

Init ==
    /\ InitController
    /\ request = MissingValue
    /\ lastCall = NoCall
    /\ prevCall = NoCall

Next ==
    \/ addHandleInput
    \/ \E index \in 1..MaxSlots : removeHandleInput(index)
    \/ \E index \in 1..MaxSlots, value \in TypedValues : updateHandle(index, value)
    \/ ClickAnalyze
    \/ PressEnter
    \/ ResponseArrives
    \/ LastResponseArrives

Spec == Init /\ [][Next]_vars

----------------------------------------------------------------------------
(* The controller: sorting and export *)

\* the columns whose header calls sortData
SortKeys ==
    {"handle", "name", "followers", "averageViews", "category", "engagementRate", "location"}

\* a faulty variant: the same field always toggles, a new field keeps the direction
sortDirectionKept(config, key) ==
    IF config.set /\ config.direction = "asc" THEN "desc" ELSE "asc"

\* let direction = 'asc'; if (sortConfig && sortConfig.key === key &&
\* sortConfig.direction === 'asc') direction = 'desc'
sortDirection(config, key) ==
    IF config.set /\ config.key = key /\ config.direction = "asc" THEN "desc" ELSE "asc"

IsNumberKey(key) == key \in {"followers", "averageViews", "engagementRate"}

\* String(value).toLowerCase() of a text column
lowerText(row, key) ==
    ToLowerCase(IF key \in {"handle", "name"} THEN row[key] ELSE StringCodes[row[key]])

Sign(n) == IF n < 0 THEN -1 ELSE IF n > 0 THEN 1 ELSE 0

\* a faulty variant: the direction is not consulted
compareAscending(a, b, config) ==
    IF IsNumberKey(config.key) THEN Sign(a[config.key] - b[config.key])
    ELSE IF StrLess(lowerText(a, config.key), lowerText(b, config.key)) THEN -1
    ELSE IF StrLess(lowerText(b, config.key), lowerText(a, config.key)) THEN 1
    ELSE 0

\* the comparator handed to Array.prototype.sort, as the sign of what it returns
compare(a, b, config) ==
    IF IsNumberKey(config.key)
    THEN IF config.direction = "asc" THEN Sign(a[config.key] - b[config.key])
         ELSE Sign(b[config.key] - a[config.key])
    ELSE IF StrLess(lowerText(a, config.key), lowerText(b, config.key))
         THEN (IF config.direction = "asc" THEN -1 ELSE 1)
    ELSE IF StrLess(lowerText(b, config.key), lowerText(a, config.key))
         THEN (IF config.direction = "asc" THEN 1 ELSE -1)
    ELSE 0

\* Array.prototype.sort is stable: a row goes after every row that does not compare
\* greater than it
RECURSIVE insertStable(_, _, _)
insertStable(sorted, row, config) ==
    IF sorted = <<>> THEN <<row>>
    ELSE IF compare(Head(sorted), row, config) > 0 THEN <<row>> \o sorted
    ELSE <<Head(sorted)>> \o insertStable(Tail(sorted), row, config)

RECURSIVE sortRows(_, _)
sortRows(rows, config) ==
    IF rows = <<>> THEN <<>>
    ELSE insertStable(sortRows(SubSeq(rows, 1, Len(rows) - 1), config), rows[Len(rows)], config)

\* getSortedResults: if (!sortConfig) return results; return [...results].sort(...)
sortedResults(rows, config) ==
    IF ~config.set THEN rows ELSE sortRows(rows, config)

getSortedResults == sortedResults(results, sortConfig)

\* a faulty variant: the sorted rows are stored back
sortDataInPlace(key) ==
    LET config == [set |-> TRUE, key |-> key, direction |-> sortDirection(sortConfig, key)]
    IN  /\ sortConfig' = config
        /\ Len(results) > 0
        /\ results' = sortRows(results, config)
        /\ UNCHANGED <<handles, loading, runs, finished, issued, emptied, exported, epVars>>

\* sortData; the table and its headers are rendered only when results.length > 0
sortData(key) ==
    /\ Len(results) > 0
    /\ sortConfig' = [set |-> TRUE, key |-> key, direction |-> sortDirection(sortConfig, key)]
    /\ UNCHANGED <<handles, results, loading, runs, finished, issued, emptied, exported, epVars>>

\* results.map(r => ({ Handle: r.handle, ..., Location: r.location }))
csvData(rows) ==
    [i \in 1..Len(rows) |->
        [ Handle |-> rows[i].handle, Name |-> rows[i].name, Followers |-> rows[i].followers,
          AverageViews |-> rows[i].averageViews, Category |-> rows[i].category,
          EngagementRate |-> rows[i].engagementRate, Location |-> rows[i].location ]]

\* the export buttons are rendered only when results.length > 0
exportToCSV ==
    /\ Len(results) > 0
    /\ exported' = [done |-> TRUE, type |-> "text/csv", rows |-> csvData(results)]
    /\ UNCHANGED <<handles, results, loading, sortConfig, runs, finished, issued, emptied, epVars>>

exportToExcel ==
    /\ Len(results) > 0
    /\ exported' = [done |-> TRUE, type |-> "application/vnd.ms-excel", rows |-> csvData(results)]
    /\ UNCHANGED <<handles, results, loading, sortConfig, runs, finished, issued, emptied, epVars>>

\* rows an analysis can store: answers of the route to "ab", "ba", "Zeta" and
\* "alpha", the rejection of "a!" and a network failure on "ab"
StoredRows ==
    {SuccessRow(analyzeInstagramAccount(h, [kind |-> "timeout", name |-> <<>>])) :
        h \in {<<97, 98>>, <<98, 97>>, Zeta, Alpha}}
    \cup {ErrorRow(<<97, 33>>, "Invalid handle format"), ErrorRow(<<97, 98>>, "Network error")}

RECURSIVE RowSeqs(_)
RowSeqs(n) ==
    IF n = 0 THEN {<<>>}
    ELSE LET shorter == RowSeqs(n - 1)
         IN  shorter \cup {Append(rs, r) : rs \in {t \in shorter : Len(t) = n - 1}, r \in StoredRows}

\* what the request behind a stored row met
metOf(row) ==
    IF row.status = "success" THEN [kind |-> "response", status |-> 200, error |-> Undefined]
    ELSE IF row.error = "Network error" THEN [kind |-> "rejected", status |-> 0, error |-> Undefined]
    ELSE [kind |-> "response", status |-> 400, error |-> row.error]

\* the invocation that stored the rows
finishedWith(rows) ==
    [ stored |-> TRUE,
      valid |-> [i \in 1..Len(rows) |-> rows[i].handle],
      met |-> [i \in 1..Len(rows) |-> metOf(rows[i])] ]

\* the table after an analysis has stored its rows, the next analysis started or not
InitSort ==
    /\ handles = << <<97, 98>> >>
    /\ results \in RowSeqs(MaxRows) \ {<<>>}
    /\ loading \in BOOLEAN
    /\ sortConfig = NoSort
    /\ runs = IF loading THEN SetToBag({startRun(validHandlesOf(handles))})
              ELSE EmptyBag
    /\ finished = finishedWith(results)
    /\ issued = Len(results) + (IF loading THEN 1 ELSE 0)
    /\ emptied = FALSE
    /\ exported = NoExport
    /\ request = MissingValue
    /\ lastCall = NoCall
    /\ prevCall = NoCall

NextSort ==
    \/ \E key \in SortKeys : sortData(key)
    \/ exportToCSV
    \/ exportToExcel

SpecSort == InitSort /\ [][NextSort]_vars

----------------------------------------------------------------------------
(* The endpoint on its own: one request body, served any number of times *)

RequestValues ==
    {StringValue(s) : s \in StringsUpTo(MaxLen) \cup {Test, BadHandle}}
        \cup {MissingValue, NumberValue, MalformedBody}

InitEndpoint ==
    /\ InitController
    /\ request \in RequestValues
    /\ lastCall = NoCall
    /\ prevCall = NoCall

\* the route handler runs once more on the same request body
Serve(enrich) ==
    /\ prevCall' = lastCall
    /\ lastCall' = [enrich |-> enrich, res |-> POST(request, enrich)]
    /\ UNCHANGED <<request, ctlVars>>

NextEndpoint == \E enrich \in Enrichments : Serve(enrich)

SpecEndpoint == InitEndpoint /\ [][NextEndpoint]_vars

Served(call) == call.res.status # 0

ErrorOf(res) == IF res.status = 200 THEN "" ELSE res.body.error

----------------------------------------------------------------------------
(* Claims about the endpoint *)

\* the handle as the claims read it: surrounding white space and one leading '@' removed
StrippedOfLeadingAt(s) ==
    LET t == Trim(s)
    IN  Trim(IF t # <<>> /\ Head(t) = 64 THEN Tail(t) ELSE t)

\* C4: a string handle that, stripped of a leading '@' and of surrounding white
\* space, is non-empty and holds a character outside [A-Za-z0-9._] is answered
\* with status 400 and the message "Invalid handle format".
C4_InvalidFormatRejected ==
    ( /\ Served(lastCall)
      /\ request.type = "string"
      /\ LET s == StrippedOfLeadingAt(request.text)
         IN  s # <<>> /\ \E i \in 1..Len(s) : ~IsHandleChar(s[i]) )
    => ( /\ lastCall.res.status = 400
         /\ ErrorOf(lastCall.res) = "Invalid handle format" )

\* C5: a string handle that is empty after trimming and stripping '@' (the empty
\* string included) is answered with status 400 and "Handle cannot be empty";
\* "Invalid handle provided" is the answer only to a missing or non-string handle.
C5_EmptyHandleMessage ==
    Served(lastCall) =>
        /\ (request.type = "string" /\ cleanHandleOf(request.text) = <<>>)
              => ( /\ lastCall.res.status = 400
                   /\ ErrorOf(lastCall.res) = "Handle cannot be empty" )
        /\ ErrorOf(lastCall.res) = "Invalid handle provided" => request.type # "string"

\* the case of C6: "test" has been served and the page gave no name
TestServedUnenriched ==
    /\ request = StringValue(Test)
    /\ Served(lastCall)
    /\ lastCall.enrich.kind # "named"

\* C6 (as amended): for handle "test" (code sum 448) with enrichment absent the
\* endpoint returns followers 71336, category "Education" (index 448 mod 15 = 13
\* of the category list, counted from 0) and location "Los Angeles, CA".
C6_TestMetrics ==
    TestServedUnenriched =>
        /\ lastCall.res.status = 200
        /\ hash(Test) = 448
        /\ lastCall.res.body.followers = 71336
        /\ lastCall.res.body.category = "Education"
        /\ lastCall.res.body.location = "Los Angeles, CA"

\* C6 as first stated: the category returned for "test" is "Fashion"
C6_Original ==
    TestServedUnenriched =>
        /\ lastCall.res.status = 200
        /\ lastCall.res.body.followers = 71336
        /\ lastCall.res.body.category = "Fashion"
        /\ lastCall.res.body.location = "Los Angeles, CA"

C6_Witness ==
    /\ TestServedUnenriched
    /\ lastCall.res.status = 200
    /\ lastCall.res.body.handle = Test

\* the request body passes the endpoint's validation
IsValidRequest(v) ==
    v.type = "string" /\ v.text # <<>> /\ MatchesHandleFormat(cleanHandleOf(v.text))

\* C7: two requests with the same valid handle both return 200 with the same
\* followers, averageViews, engagementRate, category and location whatever the
\* enrichment outcome of each; the name is the same too unless an enrichment
\* produced a name.
C7_Deterministic ==
    (IsValidRequest(request) /\ Served(lastCall) /\ Served(prevCall)) =>
        /\ lastCall.res.status = 200
        /\ prevCall.res.status = 200
        /\ lastCall.res.body.followers = prevCall.res.body.followers
        /\ lastCall.res.body.averageViews = prevCall.res.body.averageViews
        /\ lastCall.res.body.engagementRate = prevCall.res.body.engagementRate
        /\ lastCall.res.body.category = prevCall.res.body.category
        /\ lastCall.res.body.location = prevCall.res.body.location
        /\ (lastCall.enrich.kind # "named" /\ prevCall.enrich.kind # "named")
              => lastCall.res.body.name = prevCall.res.body.name

C7_Witness ==
    /\ IsValidRequest(request)
    /\ prevCall.enrich.kind = "timeout"
    /\ lastCall.enrich.kind = "named"
    /\ lastCall.res.status = 200
    /\ lastCall.res.body.name # prevCall.res.body.name
    /\ lastCall.res.body.followers = prevCall.res.body.followers

----------------------------------------------------------------------------
(* Claims about the controller's handle list and analysis runs *)

\* the non-blank entries of a handle list, in list order
RECURSIVE NonBlankInOrder(_)
NonBlankInOrder(hs) ==
    IF hs = <<>> THEN <<>>
    ELSE IF Trim(Head(hs)) = <<>> THEN NonBlankInOrder(Tail(hs))
    ELSE <<Head(hs)>> \o NonBlankInOrder(Tail(hs))

ReturnedOk(m) == m.kind = "response" /\ m.status \in 200..299

\* the stored rows against the handles of the invocation that stored them and
\* what each of its requests met
RowsMatchOutcomes ==
    finished.stored =>
        LET n == Len(finished.valid)
        IN  /\ n > 0
            /\ Len(results) = n
            /\ Len(finished.met) = n
            /\ \A i \in 1..n :
                 LET m == finished.met[i]
                     r == results[i]
                     h == finished.valid[i]
                 IN  IF ReturnedOk(m)
                     THEN /\ r.status = "success"
                          /\ r.handle = cleanHandleOf(h)
                          /\ r.error = Undefined
                     ELSE /\ r.status = "error"
                          /\ r.handle = h
                          /\ r.followers = 0
                          /\ r.averageViews = 0
                          /\ r.engagementRate = 0
                          /\ r.error \notin {Undefined, ""}
                          /\ r.error = IF m.kind = "rejected" THEN "Network error"
                                       ELSE IF m.error \in {Undefined, ""}
                                       THEN "Failed to fetch data"
                                       ELSE m.error

\* an invocation takes the non-blank entries of the handle list, in list order
StartsOnNonBlank ==
    analyzeAccounts =>
        \E run \in BagToSet(runs') :
            /\ CopiesIn(run, runs') = CopiesIn(run, runs) + 1
            /\ run.valid = NonBlankInOrder(handles)
            /\ run.newResults = <<>>

\* C1: when an invocation that started with non-blank handles h1..hn completes,
\* the stored results have exactly n rows, row i belongs to hi, and row i is
\* success-tagged if request i returned OK with a body, otherwise error-tagged
\* with handle hi, zeroed numbers and a non-empty message (the server's if it
\* sent one, else a generic one), whatever each request met.
C1_OneRowPerHandle == [][StartsOnNonBlank]_vars /\ []RowsMatchOutcomes

\* a two-handle run whose first request failed and whose second succeeded
C1_Witness ==
    /\ finished.stored
    /\ Len(finished.valid) = 2
    /\ finished.met[1].kind = "rejected"
    /\ ReturnedOk(finished.met[2])
    /\ Len(results) = 2
    /\ results[1].status = "error"
    /\ results[2].status = "success"

RECURSIVE SumOver(_, _)
SumOver(S, runBag) ==
    IF S = {} THEN 0
    ELSE LET run == CHOOSE x \in S : TRUE
         IN  CopiesIn(run, runBag) * Cardinality(run.pending) + SumOver(S \ {run}, runBag)

\* the requests to /api/analyze awaiting their response
InFlight == SumOver(BagToSet(runs), runs)

\* within an invocation request i is in flight only once the rows of 1..i-1 are pushed
OneAtATimePerRun ==
    \A run \in BagToSet(runs) :
        /\ Cardinality(run.pending) <= 1
        /\ \A i \in run.pending : Len(run.newResults) = i - 1

C3_NeverEmpty ==
    /\ Len(handles) >= 1
    /\ emptied => handles = << <<>> >>

\* a one-entry list holding a handle has just had its entry removed
C3_Witness ==
    /\ emptied
    /\ Len(handles) = 1
    /\ handles[1] = <<>>

----------------------------------------------------------------------------
(* Claims about sorting and export *)

\* C8: sortBy(field) sets the sort key to field; the direction becomes descending
\* exactly when the previous key was the same field and the previous direction
\* ascending, and ascending in every other case.
C8_SortToggle ==
    [][ \A key \in SortKeys :
          sortData(key) =>
            /\ sortConfig'.set
            /\ sortConfig'.key = key
            /\ sortConfig'.direction \in {"asc", "desc"}
            /\ (sortConfig'.direction = "desc")
                  <=> (sortConfig.set /\ sortConfig.key = key /\ sortConfig.direction = "asc")
      ]_vars

\* a second click on the same field
C8_Witness ==
    /\ sortConfig.set
    /\ sortConfig.key = "followers"
    /\ sortConfig.direction = "desc"

Reverse(rows) == [i \in 1..Len(rows) |-> rows[Len(rows) + 1 - i]]

ByFollowers(direction) == [set |-> TRUE, key |-> "followers", direction |-> direction]

DistinctFollowers(rows) ==
    \A i, j \in 1..Len(rows) : i # j => rows[i].followers # rows[j].followers

\* rows with equal followers are rendered in their stored order
TiesKeepStoredOrder(rows, direction) ==
    LET sorted == sortedResults(rows, ByFollowers(direction))
    IN  \A i, j \in 1..Len(sorted) :
            (i < j /\ sorted[i].followers = sorted[j].followers /\ sorted[i] # sorted[j])
            => \E k, l \in 1..Len(rows) : k < l /\ rows[k] = sorted[i] /\ rows[l] = sorted[j]

Opposite(direction) == IF direction = "asc" THEN "desc" ELSE "asc"

\* three rows are rendered sorted by followers
ThreeRowsByFollowers ==
    /\ Len(results) = 3
    /\ sortConfig.set
    /\ sortConfig.key = "followers"

\* C9 (as amended): for every 3-row result set whose followers values are pairwise
\* distinct the render order for followers descending is exactly the reverse of
\* the one for followers ascending; rows with equal followers (two error rows,
\* both 0) keep their stored order in both directions.
C9_ReversedWhenDistinct ==
    ThreeRowsByFollowers =>
        /\ DistinctFollowers(results)
              => getSortedResults
                    = Reverse(sortedResults(results, ByFollowers(Opposite(sortConfig.direction))))
        /\ TiesKeepStoredOrder(results, sortConfig.direction)

\* C9 as first stated: for every 3-row result set
C9_Original ==
    ThreeRowsByFollowers =>
        getSortedResults
            = Reverse(sortedResults(results, ByFollowers(Opposite(sortConfig.direction))))

\* three rows, an error row among them, rendered by followers descending
C9_Witness ==
    /\ ThreeRowsByFollowers
    /\ sortConfig.direction = "desc"
    /\ DistinctFollowers(results)
    /\ \E i \in 1..3 : results[i].status = "error"
    /\ getSortedResults # results
    /\ getSortedResults = Reverse(sortedResults(results, ByFollowers("asc")))

Occurrences(rows, row) == Cardinality({i \in 1..Len(rows) : rows[i] = row})

IsPermutation(a, b) ==
    /\ Len(a) = Len(b)
    /\ \A i \in 1..Len(a) : Occurrences(a, a[i]) = Occurrences(b, a[i])

\* the exported rows are the stored rows, in stored order
ExportedAsStored ==
    /\ Len(exported.rows) = Len(results)
    /\ \A i \in 1..Len(results) :
          /\ exported.rows[i].Handle = results[i].handle
          /\ exported.rows[i].Name = results[i].name
          /\ exported.rows[i].Followers = results[i].followers
          /\ exported.rows[i].AverageViews = results[i].averageViews
          /\ exported.rows[i].Category = results[i].category
          /\ exported.rows[i].EngagementRate = results[i].engagementRate
          /\ exported.rows[i].Location = results[i].location

\* C10: sorting is a pure projection: sortBy changes only the sort key and
\* direction and leaves the stored results, the handle list and the loading flag
\* as they were; the rendered rows are a permutation of the stored results; the
\* exports serialize the stored results in stored order whatever the sort.
C10_SortIsProjection ==
    /\ [][ \A key \in SortKeys : sortData(key) => UNCHANGED <<results, handles, loading>> ]_vars
    /\ [](IsPermutation(getSortedResults, results))
    /\ [](exported.done => ExportedAsStored)

\* an export made while the table is rendered in an order other than the stored one
C10_Witness ==
    /\ sortConfig.set
    /\ getSortedResults # results
    /\ exported.done
    /\ Len(exported.rows) = Len(results)
    /\ exported.rows[1].Handle = results[1].handle
    /\ exported.rows[1].Handle # getSortedResults[1].handle

----------------------------------------------------------------------------
(* Claims about the loading flag *)

\* some invocation has started and has not stored its results yet
AnalysisInProgress == BagCardinality(runs) > 0

\* the results list is the complete row list of the invocation that stored it
ResultsNeverPartial ==
    /\ ~finished.stored => results = <<>>
    /\ finished.stored => Len(results) = Len(finished.valid)

\* C11: loading is true whenever some invocation has started with a non-blank
\* handle and has not yet stored its results (in particular whenever a request is
\* in flight), and the results list is replaced only by a complete result set;
\* this holds also when an invocation is started by the Enter key while an
\* earlier one is still awaiting a response.
C11_LoadingTracksProgress ==
    /\ AnalysisInProgress => loading
    /\ InFlight > 0 => loading
    /\ ResultsNeverPartial

====
